---------------------------- MODULE Spec2Model ----------------------------
(***************************************************************************)
(* A model of cmds.py, the CAT issuance command of CAT-admin-tool.         *)
(*                                                                         *)
(* Strings are sequences of one-character strings.  A Program is the       *)
(* sequence of its atoms (integers).  A 32-byte digest is modelled         *)
(* collision-free: the digest of a value is the tagged sequence of what    *)
(* was hashed.  A signature is an element of the additive group of the     *)
(* integers modulo GroupOrder.                                             *)
(*                                                                         *)
(* Spec      : one run of cli(), one step per statement group.             *)
(* ParseSpec : parse_program applied to every bounded input.               *)
(***************************************************************************)
EXTENDS Integers, Sequences, FiniteSets, TLC

VARIABLES
    pc,                   \* position of the run inside cli / get_signed_tx
    tail_arg, curry, solution_arg, send_to, amount, fee,
    signature, spend, as_bytes, select_coin,          \* the command's options
    tail, curried_args, solution, address,            \* cli locals, lines 167-170
    aggregated_signature, aggregated_spend,           \* lines 172-182
    curried_tail, p2_puzzle, cat_ph,                  \* lines 184-197
    wallet_client, conn, pending, createCalls,        \* get_signed_tx frame and the wallet
    signed_tx, eve_coin, eve_spend, final_bundle,     \* lines 200-236
    final_bundle_str,                                 \* final_bundle as rebound on 239/241
    out, err,                                         \* stdout, the uncaught exception
    pp_in, pp_file, pp_out                            \* ParseSpec: input, file read, result

options  == <<tail_arg, solution_arg, send_to, amount, fee, as_bytes, select_coin>>
lists    == <<curry, signature, spend>>
parsed   == <<tail, curried_args, solution, address>>
folded   == <<aggregated_signature, aggregated_spend>>
puzzles  == <<curried_tail, p2_puzzle, cat_ph>>
walletv  == <<wallet_client, conn, pending, createCalls>>
spends   == <<signed_tx, eve_coin, eve_spend, final_bundle, final_bundle_str>>
outputs  == <<out, err>>
ppvars   == <<pp_in, pp_file, pp_out>>
vars     == <<pc, options, lists, parsed, folded, puzzles, walletv, spends,
              outputs, ppvars>>

-----------------------------------------------------------------------------
(* Bounds *)

MaxCurry   == 2      \* curry arguments per run
MaxSigs    == 2      \* --signature options per run
MaxSpends  == 1      \* --spend options per run
MaxLocLen  == 2      \* length of a program locator in ParseSpec
MaxFileLen == 5      \* length of a file's contents in ParseSpec
GroupOrder == 3      \* order of the group standing for G2

-----------------------------------------------------------------------------
(* Strings *)

Contains(s, ch) == \E i \in DOMAIN s : s[i] = ch

Whitespace == {" ", "\t", "\n"}

NotWhitespace(ch) == ch \notin Whitespace

\* re.compile(r"\(mod\s").search(filestring)
ModPattern(s) ==
    \E i \in 1..(Len(s) - 4) :
        /\ s[i] = "("
        /\ s[i + 1] = "m"
        /\ s[i + 2] = "o"
        /\ s[i + 3] = "d"
        /\ s[i + 4] \in Whitespace

Strs(alphabet, n) == UNION {[1..k -> alphabet] : k \in 0..n}

SeqsUpTo(S, n) == UNION {[1..k -> S] : k \in 0..n}

RECURSIVE Flatten(_)
Flatten(ss) == IF ss = <<>> THEN <<>> ELSE Head(ss) \o Flatten(Tail(ss))

-----------------------------------------------------------------------------
(* The puzzle-language runtime: assemble, hexstr_to_bytes, Program.from_bytes *)

NoProgram == <<>>

Failure(e) == [ok |-> FALSE, error |-> e, prog |-> NoProgram]
Success(p) == [ok |-> TRUE, error |-> "", prog |-> p]

Opens(s, i)  == Cardinality({j \in 1..i : s[j] = "("})
Closes(s, i) == Cardinality({j \in 1..i : s[j] = ")"})

Balanced(s) ==
    /\ \A i \in 1..Len(s) : Opens(s, i) >= Closes(s, i)
    /\ Opens(s, Len(s)) = Closes(s, Len(s))

AtomOf(ch) ==
    CASE ch = "(" -> 1
      [] ch = ")" -> 2
      [] ch = "." -> 3
      [] ch = "a" -> 10
      [] ch = "d" -> 13
      [] ch = "f" -> 15
      [] ch = "m" -> 22
      [] ch = "o" -> 24
      [] OTHER    -> 35

\* assemble(text) followed by Program.to: the atoms of the expression, blanks
\* dropped; an empty or unbalanced expression does not assemble.
assemble(text) ==
    LET toks == SelectSeq(text, NotWhitespace)
    IN  IF toks # <<>> /\ Balanced(toks)
        THEN Success([i \in 1..Len(toks) |-> AtomOf(toks[i])])
        ELSE Failure("SyntaxError")

HexDigits == {"a", "d", "f"}

HexVal(ch) == CASE ch = "a" -> 10 [] ch = "d" -> 13 [] OTHER -> 15

\* Program.from_bytes(hexstr_to_bytes(s)): bytes.fromhex wants an even number of
\* hex digits, and an empty byte string deserializes to no program.
from_hex(s) ==
    IF Len(s) % 2 = 0 /\ (\A i \in DOMAIN s : s[i] \in HexDigits)
    THEN IF s = <<>>
         THEN Failure("ValueError")
         ELSE Success([i \in 1..(Len(s) \div 2) |->
                           16 * HexVal(s[2 * i - 1]) + HexVal(s[2 * i])])
    ELSE Failure("ValueError")

-----------------------------------------------------------------------------
(* parse_program, lines 58-79 *)

NoFile == [exists |-> FALSE, data |-> <<>>]
FileOf(data) == [exists |-> TRUE, data |-> data]

Parsed(branch, r, compiled) ==
    [branch |-> branch, ok |-> r.ok, error |-> r.error, prog |-> r.prog,
     compiled |-> compiled]

\* append_include is called on line 73 and is neither defined nor imported in
\* cmds.py: evaluating the call's arguments raises NameError before
\* compile_clvm_text is entered.
append_include_bound == FALSE

compile_file(filestring) ==
    IF append_include_bound
    THEN Parsed("file_chialisp", assemble(filestring), TRUE)
    ELSE Parsed("file_chialisp", Failure("NameError"), FALSE)

\* input: [isProgram, prog, text]; file: what open(program).read() gives for
\* the path `text` (read only in the file branch).
parse_program(input, file) ==
    IF input.isProgram
    THEN Parsed("program", Success(input.prog), FALSE)
    ELSE IF Contains(input.text, "(")
    THEN Parsed("inline", assemble(input.text), FALSE)
    ELSE IF ~Contains(input.text, ".")
    THEN Parsed("hex", from_hex(input.text), FALSE)
    ELSE IF ~file.exists
    THEN Parsed("file", Failure("FileNotFoundError"), FALSE)
    ELSE IF Contains(file.data, "(")
    THEN IF ModPattern(file.data)
         THEN compile_file(file.data)
         ELSE Parsed("file_clvm", assemble(file.data), FALSE)
    ELSE Parsed("file_hex", from_hex(file.data), FALSE)

StrInput(text) == [isProgram |-> FALSE, prog |-> NoProgram, text |-> text]
ProgInput(p)   == [isProgram |-> TRUE, prog |-> p, text |-> <<>>]

-----------------------------------------------------------------------------
(* Program.curry, get_tree_hash, Coin.name *)

\* (a (q . p) (c (q . a1) (c (q . a2) ... 1))): the arguments in their order.
Curry(p, args) ==
    <<2, 1>> \o p \o Flatten([i \in 1..Len(args) |-> <<4, 1>> \o args[i]]) \o <<1>>

TreeHash(p) == <<32>> \o p

CC_MOD == <<99>>

\* construct_cc_puzzle(mod, tail_hash, inner) = mod.curry(mod_hash, tail_hash, inner)
construct_cc_puzzle(mod, tail_hash, inner) ==
    Curry(mod, <<TreeHash(mod), tail_hash, inner>>)

NoCoin == [parent_coin_info |-> <<>>, puzzle_hash |-> <<>>, amount |-> 0]

\* Coin.name(): the digest of parent, puzzle hash and amount (fields delimited).
CoinName(c) ==
    <<33, Len(c.parent_coin_info)>> \o c.parent_coin_info \o c.puzzle_hash
        \o <<c.amount>>

-----------------------------------------------------------------------------
(* G2Element, AugSchemeMPL, SpendBundle, decode_puzzle_hash *)

G2Zero == 0

AugAggregate(sigs) ==
    LET RECURSIVE Sum(_)
        Sum(ss) == IF ss = <<>> THEN G2Zero
                   ELSE (Head(ss) + Sum(Tail(ss))) % GroupOrder
    IN  Sum(sigs)

SpendBundleOf(coin_spends, sig) ==
    [coin_spends |-> coin_spends, aggregated_signature |-> sig]

EmptyBundle == SpendBundleOf(<<>>, G2Zero)

\* SpendBundle.aggregate: coin spends concatenated in order, signatures added.
SpendBundleAggregate(bundles) ==
    SpendBundleOf(
        Flatten([i \in 1..Len(bundles) |-> bundles[i].coin_spends]),
        AugAggregate([i \in 1..Len(bundles) |-> bundles[i].aggregated_signature]))

removals(bundle) == [i \in 1..Len(bundle.coin_spends) |-> bundle.coin_spends[i].coin]

CoinSpendOf(coin, reveal, sol) ==
    [coin |-> coin, puzzle_reveal |-> reveal, solution |-> sol]

\* G2Element.from_bytes(hexstr_to_bytes(sig))
SigHex == {"s1", "s2", "zz"}
G2FromHex(s) ==
    CASE s = "s1" -> [ok |-> TRUE, sig |-> 1]
      [] s = "s2" -> [ok |-> TRUE, sig |-> 2]
      [] OTHER    -> [ok |-> FALSE, sig |-> G2Zero]

\* SpendBundle.from_bytes(hexstr_to_bytes(bundle))
ExtraCoin == [parent_coin_info |-> <<0>>, puzzle_hash |-> <<204>>, amount |-> 3]
SpendHex == {"b1", "zz"}
BundleFromHex(s) ==
    CASE s = "b1" -> [ok |-> TRUE,
                      bundle |-> SpendBundleOf(<<CoinSpendOf(ExtraCoin, <<8>>, <<9>>)>>, 1)]
      [] OTHER    -> [ok |-> FALSE, bundle |-> EmptyBundle]

\* decode_puzzle_hash(send_to)
SendTo == {"xch1a", "xch1b", "bogus"}
decode_puzzle_hash(s) ==
    CASE s = "xch1a" -> [ok |-> TRUE, ph |-> <<101>>]
      [] s = "xch1b" -> [ok |-> TRUE, ph |-> <<102>>]
      [] OTHER       -> [ok |-> FALSE, ph |-> <<>>]

\* bytes(bundle).hex(): the streamable encoding, every list length-prefixed.
CoinBytes(c) ==
    <<Len(c.parent_coin_info)>> \o c.parent_coin_info
        \o <<Len(c.puzzle_hash)>> \o c.puzzle_hash \o <<c.amount>>

CoinSpendBytes(cs) ==
    CoinBytes(cs.coin) \o <<Len(cs.puzzle_reveal)>> \o cs.puzzle_reveal
        \o <<Len(cs.solution)>> \o cs.solution

BundleBytes(b) ==
    <<Len(b.coin_spends)>>
        \o Flatten([i \in 1..Len(b.coin_spends) |-> CoinSpendBytes(b.coin_spends[i])])
        \o <<b.aggregated_signature>>

\* json.dumps(obj, sort_keys=True): only dicts, lists, strings and numbers
\* serialize; any other object raises TypeError.
json_dumps(obj) ==
    IF obj.type = "dict"
    THEN [ok |-> TRUE, text |-> obj.data]
    ELSE [ok |-> FALSE, text |-> <<>>]

\* Coin.to_json_dict() with its keys sorted: amount, parent_coin_info, puzzle_hash
CoinJsonDict(c) ==
    [type |-> "dict",
     data |-> <<c.amount>> \o c.parent_coin_info \o c.puzzle_hash]

-----------------------------------------------------------------------------
(* The command's options and the environment *)

TailArgs ==
    { <<"(", "a", ")">>,          \* inline source
      <<"(", "a">>,               \* inline source that does not assemble
      <<"f", "f">>,               \* serialized program in hex
      <<"t", ".", "c">> }         \* a file of Chialisp

FileSystem(path) ==
    IF path = <<"t", ".", "c">>
    THEN FileOf(<<"(", "m", "o", "d", " ", "a", ")">>)
    ELSE NoFile

SolutionArgs == { <<"(", ")">>, <<"(">> }
CurryArgs    == { <<"a">>, <<"(", "d", ")">>, <<")">> }
Amounts      == {1, 2}
Fees         == {0, 1}

\* The wallet's coins and the transactions it may answer with for (ph, amt).
F1 == [parent_coin_info |-> <<0>>, puzzle_hash |-> <<201>>, amount |-> 5]
F2 == [parent_coin_info |-> <<0>>, puzzle_hash |-> <<202>>, amount |-> 5]

FundingSpend(c) == CoinSpendOf(c, <<5>>, <<6>>)
Created(parent, ph, amt) ==
    [parent_coin_info |-> CoinName(parent), puzzle_hash |-> ph, amount |-> amt]
Change(parent) == Created(parent, <<203>>, 1)

TxRecord(coins, additions, sig) ==
    [spend_bundle |-> SpendBundleOf([i \in 1..Len(coins) |-> FundingSpend(coins[i])], sig),
     additions |-> additions]

NoTx == TxRecord(<<>>, <<>>, G2Zero)

WalletTxs(ph, amt) ==
    { TxRecord(<<F1>>, <<Created(F1, ph, amt), Change(F1)>>, 1),
      TxRecord(<<F1>>, <<Change(F1)>>, 1),
      TxRecord(<<F1, F2>>, <<Created(F1, ph, amt), Created(F2, ph, amt)>>, 2),
      TxRecord(<<F1>>, <<Created(F2, ph, amt)>>, 1),
      TxRecord(<<F1, F2>>, <<Change(F1), Created(F2, ph, amt)>>, 2) }

-----------------------------------------------------------------------------
(* The run of cli(), lines 152-244 *)

NoResult == Parsed("", Failure(""), FALSE)

ParseIdle ==
    /\ pp_in = StrInput(<<>>)
    /\ pp_file = NoFile
    /\ pp_out = NoResult

Locals0 ==
    /\ curry = <<>> /\ signature = <<>> /\ spend = <<>>
    /\ tail = NoProgram /\ curried_args = <<>>
    /\ solution = NoProgram /\ address = <<>>
    /\ aggregated_signature = G2Zero /\ aggregated_spend = EmptyBundle
    /\ curried_tail = NoProgram /\ p2_puzzle = NoProgram /\ cat_ph = <<>>
    /\ wallet_client = "unbound" /\ conn = "none" /\ pending = ""
    /\ createCalls = 0
    /\ signed_tx = NoTx /\ eve_coin = NoCoin
    /\ eve_spend = EmptyBundle /\ final_bundle = EmptyBundle
    /\ final_bundle_str = <<>>
    /\ out = <<>> /\ err = ""

\* The scalar options are fixed on entry.  The tuple options (curry, signature,
\* spend) are read by no statement before the loop that iterates them, and
\* the model draws each one there.
Init ==
    /\ pc = "parse_tail"
    /\ tail_arg \in TailArgs
    /\ solution_arg \in SolutionArgs
    /\ send_to \in SendTo
    /\ amount \in Amounts
    /\ fee \in Fees
    /\ as_bytes \in BOOLEAN
    /\ select_coin \in BOOLEAN
    /\ Locals0
    /\ ParseIdle

\* An exception nobody catches: traceback, the run is over.
Abort(e) == pc' = "error" /\ err' = e

Goto(next) == pc' = next /\ err' = err

\* The process status: an uncaught exception ends the process non-zero.
exit_status == IF pc = "error" THEN 1 ELSE 0

Terminated == pc \in {"done", "error"}

\* line 167
ParseTail ==
    /\ pc = "parse_tail"
    /\ LET r == parse_program(StrInput(tail_arg), FileSystem(tail_arg))
       IN  IF r.ok THEN tail' = r.prog /\ Goto("assemble_curry")
                   ELSE tail' = tail /\ Abort(r.error)
    /\ UNCHANGED <<options, lists, curried_args, solution, address, folded,
                   puzzles, walletv, spends, out, ppvars>>

\* An assembly that drops the arguments it cannot assemble instead of raising.
AssembleCurry_Lenient ==
    /\ pc = "assemble_curry"
    /\ \E c \in SeqsUpTo(CurryArgs, MaxCurry) :
         /\ curry' = c
         /\ LET Good(a) == assemble(a).ok
                kept == SelectSeq(c, Good)
            IN  curried_args' = [i \in DOMAIN kept |-> assemble(kept[i]).prog]
         /\ Goto("parse_solution")
    /\ UNCHANGED <<options, signature, spend, tail, solution, address, folded,
                   puzzles, walletv, spends, out, ppvars>>

\* line 168: every argument is assembled, the first that fails raises.
AssembleCurry ==
    /\ pc = "assemble_curry"
    /\ \E c \in SeqsUpTo(CurryArgs, MaxCurry) :
         /\ curry' = c
         /\ IF \A i \in DOMAIN c : assemble(c[i]).ok
            THEN /\ curried_args' = [i \in DOMAIN c |-> assemble(c[i]).prog]
                 /\ Goto("parse_solution")
            ELSE /\ curried_args' = curried_args
                 /\ Abort("SyntaxError")
    /\ UNCHANGED <<options, signature, spend, tail, solution, address, folded,
                   puzzles, walletv, spends, out, ppvars>>

\* line 169
ParseSolution ==
    /\ pc = "parse_solution"
    /\ LET r == parse_program(StrInput(solution_arg), FileSystem(solution_arg))
       IN  IF r.ok THEN solution' = r.prog /\ Goto("decode_address")
                   ELSE solution' = solution /\ Abort(r.error)
    /\ UNCHANGED <<options, lists, tail, curried_args, address, folded,
                   puzzles, walletv, spends, out, ppvars>>

\* line 170
DecodeAddress ==
    /\ pc = "decode_address"
    /\ LET r == decode_puzzle_hash(send_to)
       IN  IF r.ok THEN address' = r.ph /\ Goto("aggregate_signatures")
                   ELSE address' = address /\ Abort("ValueError")
    /\ UNCHANGED <<options, lists, tail, curried_args, solution, folded,
                   puzzles, walletv, spends, out, ppvars>>

\* lines 172-176: the fold over --signature, from G2Element()
FoldSignatures(sigs) ==
    LET RECURSIVE Fold(_, _)
        Fold(acc, i) ==
            IF i > Len(sigs) THEN acc
            ELSE Fold(AugAggregate(<<acc, G2FromHex(sigs[i]).sig>>), i + 1)
    IN  Fold(G2Zero, 1)

AggregateSignatures ==
    /\ pc = "aggregate_signatures"
    /\ \E sigs \in SeqsUpTo(SigHex, MaxSigs) :
         /\ signature' = sigs
         /\ IF \A i \in DOMAIN sigs : G2FromHex(sigs[i]).ok
            THEN /\ aggregated_signature' = FoldSignatures(sigs)
                 /\ Goto("aggregate_spends")
            ELSE /\ aggregated_signature' = aggregated_signature
                 /\ Abort("ValueError")
    /\ UNCHANGED <<options, curry, spend, parsed, aggregated_spend,
                   puzzles, walletv, spends, out, ppvars>>

\* lines 178-182: the fold over --spend, from SpendBundle([], G2Element())
FoldSpends(bundles) ==
    LET RECURSIVE Fold(_, _)
        Fold(acc, i) ==
            IF i > Len(bundles) THEN acc
            ELSE Fold(SpendBundleAggregate(<<acc, BundleFromHex(bundles[i]).bundle>>),
                      i + 1)
    IN  Fold(EmptyBundle, 1)

AggregateSpends ==
    /\ pc = "aggregate_spends"
    /\ \E bs \in SeqsUpTo(SpendHex, MaxSpends) :
         /\ spend' = bs
         /\ IF \A i \in DOMAIN bs : BundleFromHex(bs[i]).ok
            THEN /\ aggregated_spend' = FoldSpends(bs)
                 /\ Goto("construct")
            ELSE /\ aggregated_spend' = aggregated_spend
                 /\ Abort("ValueError")
    /\ UNCHANGED <<options, curry, signature, parsed, aggregated_signature,
                   puzzles, walletv, spends, out, ppvars>>

\* lines 185-188
CurriedTail(t, args) == IF Len(args) > 0 THEN Curry(t, args) ELSE t

\* lines 191-193
P2Puzzle(ct, sol, addr, amt) ==
    <<1, 51, 0, -113>> \o ct \o sol \o <<51>> \o addr \o <<amt>>

\* lines 184-197
Construct ==
    /\ pc = "construct"
    /\ LET ct == CurriedTail(tail, curried_args)
           p2 == P2Puzzle(ct, solution, address, amount)
       IN  /\ curried_tail' = ct
           /\ p2_puzzle' = p2
           /\ cat_ph' = TreeHash(construct_cc_puzzle(CC_MOD, TreeHash(ct), p2))
    /\ Goto("get_client")
    /\ UNCHANGED <<options, lists, parsed, folded, walletv, spends, out, ppvars>>

-----------------------------------------------------------------------------
(* get_client and get_signed_tx, lines 28-55 *)

Line(kind, data) == [kind |-> kind, data |-> data]

\* lines 28-44 (called on line 49): a client, or None after printing why
GetClientOutcomes == {"connected", "connection_refused", "config_error"}

GetClient ==
    /\ pc = "get_client"
    /\ \E o \in GetClientOutcomes :
         IF o = "connected"
         THEN wallet_client' = "client" /\ conn' = "open" /\ out' = out
         ELSE /\ wallet_client' = "None"
              /\ conn' = conn
              /\ out' = Append(out, Line("connection_diagnostic", <<>>))
    /\ Goto("create_signed_transaction")
    /\ UNCHANGED <<options, lists, parsed, folded, puzzles, pending, createCalls,
                   spends, ppvars>>

\* lines 50-52: the single RPC; on None the attribute lookup itself raises.
WalletAnswers(ph, amt) ==
    {[raises |-> FALSE, tx |-> t] : t \in WalletTxs(ph, amt)}
        \cup {[raises |-> TRUE, tx |-> NoTx]}

CreateSignedTransaction ==
    /\ pc = "create_signed_transaction"
    /\ IF wallet_client = "None"
       THEN /\ pending' = "AttributeError: create_signed_transaction"
            /\ UNCHANGED <<createCalls, signed_tx>>
       ELSE /\ createCalls' = createCalls + 1
            /\ \E a \in WalletAnswers(cat_ph, amount) :
                 IF a.raises
                 THEN pending' = "ValueError: wallet" /\ signed_tx' = signed_tx
                 ELSE pending' = "" /\ signed_tx' = a.tx
    /\ Goto("finally_close")
    /\ UNCHANGED <<options, lists, parsed, folded, puzzles, wallet_client, conn,
                   eve_coin, eve_spend, final_bundle, final_bundle_str, out, ppvars>>

\* line 54, in the finally block: wallet_client.close()
FinallyClose ==
    /\ pc = "finally_close"
    /\ IF wallet_client = "None"
       THEN conn' = conn /\ Abort("AttributeError: close")
       ELSE conn' = "closing" /\ Goto("finally_await_closed")
    /\ UNCHANGED <<options, lists, parsed, folded, puzzles, wallet_client, pending,
                   createCalls, spends, out, ppvars>>

\* A cleanup that returns from the finally block, swallowing what was pending.
FinallyAwaitClosed_Swallow ==
    /\ pc = "finally_await_closed"
    /\ conn' = "closed"
    /\ Goto("select_eve")
    /\ UNCHANGED <<options, lists, parsed, folded, puzzles, wallet_client, pending,
                   createCalls, spends, out, ppvars>>

\* line 55, then get_signed_tx returns the record or re-raises what was pending
FinallyAwaitClosed ==
    /\ pc = "finally_await_closed"
    /\ conn' = "closed"
    /\ IF pending # "" THEN Abort(pending) ELSE Goto("select_eve")
    /\ UNCHANGED <<options, lists, parsed, folded, puzzles, wallet_client, pending,
                   createCalls, spends, out, ppvars>>

-----------------------------------------------------------------------------
(* cli after the wallet call, lines 203-244 *)

\* list(filter(lambda c: c.puzzle_hash == cat_ph, additions))
EveCandidates(tx, ph) ==
    LET AtPh(c) == c.puzzle_hash = ph
    IN  SelectSeq(tx.additions, AtPh)

\* A run in which --select-coin is not honoured: it goes on to the genesis spend.
AfterEve_Ignored(sc) == "build_genesis"

\* line 208: if select_coin
AfterEve(sc) == IF sc THEN "select_primary" ELSE "build_genesis"

\* lines 203-205: element [0] of the matches
SelectEve ==
    /\ pc = "select_eve"
    /\ LET m == EveCandidates(signed_tx, cat_ph)
       IN  IF m = <<>>
           THEN eve_coin' = eve_coin /\ Abort("IndexError")
           ELSE /\ eve_coin' = m[1]
                /\ Goto(AfterEve(select_coin))
    /\ UNCHANGED <<options, lists, parsed, folded, puzzles, walletv, signed_tx,
                   eve_spend, final_bundle, final_bundle_str, out, ppvars>>

\* list(filter(lambda c: c.name() == eve_coin.parent_coin_info, removals))
PrimaryCandidates(tx, eve) ==
    LET IsParent(c) == CoinName(c) = eve.parent_coin_info
    IN  SelectSeq(removals(tx.spend_bundle), IsParent)

\* lines 208-214
SelectPrimary ==
    /\ pc = "select_primary"
    /\ LET m == PrimaryCandidates(signed_tx, eve_coin)
       IN  IF m = <<>>
           THEN out' = out /\ Abort("IndexError")
           ELSE /\ out' = out \o << Line("coin", json_dumps(CoinJsonDict(m[1])).text),
                                    Line("coin_name", CoinName(m[1])) >>
                /\ Goto("done")
    /\ UNCHANGED <<options, lists, parsed, folded, puzzles, walletv, spends, ppvars>>

\* unsigned_spend_bundle_for_spendable_ccs(CC_MOD, [spendable]): one unsigned
\* spend of the coin, revealing the wrapped puzzle.
unsigned_spend_bundle_for_spendable_ccs(mod, sp) ==
    SpendBundleOf(
        << CoinSpendOf(sp.coin,
                       construct_cc_puzzle(mod, sp.limitations_program_hash,
                                           sp.inner_puzzle),
                       sp.inner_solution \o CoinName(sp.coin)
                           \o sp.limitations_program_reveal
                           \o sp.limitations_solution) >>,
        G2Zero)

\* lines 218-226
BuildGenesis ==
    /\ pc = "build_genesis"
    /\ LET spendable_eve ==
               [coin |-> eve_coin,
                limitations_program_hash |-> TreeHash(curried_tail),
                inner_puzzle |-> p2_puzzle,
                inner_solution |-> <<0>>,
                limitations_solution |-> solution,
                limitations_program_reveal |-> curried_tail]
       IN  eve_spend' = unsigned_spend_bundle_for_spendable_ccs(CC_MOD, spendable_eve)
    /\ Goto("aggregate")
    /\ UNCHANGED <<options, lists, parsed, folded, puzzles, walletv, signed_tx,
                   eve_coin, final_bundle, final_bundle_str, out, ppvars>>

\* An aggregation that leaves out the bundle carrying the folded signature.
FinalBundle_NoSignature(tx, eve, extra, sig) ==
    SpendBundleAggregate(<<tx.spend_bundle, eve, extra>>)

\* lines 229-236
FinalBundle(tx, eve, extra, sig) ==
    SpendBundleAggregate(<<tx.spend_bundle, eve, extra, SpendBundleOf(<<>>, sig)>>)

Aggregate ==
    /\ pc = "aggregate"
    /\ final_bundle' = FinalBundle(signed_tx, eve_spend, aggregated_spend,
                                   aggregated_signature)
    /\ Goto("serialize")
    /\ UNCHANGED <<options, lists, parsed, folded, puzzles, walletv, signed_tx,
                   eve_coin, eve_spend, final_bundle_str, out, ppvars>>

\* lines 238-241: hex of the bytes, or json.dumps of the SpendBundle object itself
Render(bundle, bytes_mode) ==
    IF bytes_mode
    THEN [ok |-> TRUE, text |-> BundleBytes(bundle)]
    ELSE json_dumps([type |-> "SpendBundle", data |-> BundleBytes(bundle)])

\* A presenter that prints the AssetID before it renders the bundle.
Serialize_PrintsFirst ==
    /\ pc = "serialize"
    /\ out' = Append(out, Line("asset_id", TreeHash(curried_tail)))
    /\ LET r == Render(final_bundle, as_bytes)
       IN  IF r.ok THEN final_bundle_str' = r.text /\ Goto("print_spend_bundle")
                   ELSE final_bundle_str' = final_bundle_str /\ Abort("TypeError")
    /\ UNCHANGED <<options, lists, parsed, folded, puzzles, walletv, signed_tx,
                   eve_coin, eve_spend, final_bundle, ppvars>>

Serialize ==
    /\ pc = "serialize"
    /\ LET r == Render(final_bundle, as_bytes)
       IN  IF r.ok THEN final_bundle_str' = r.text /\ Goto("print_asset_id")
                   ELSE final_bundle_str' = final_bundle_str /\ Abort("TypeError")
    /\ UNCHANGED <<options, lists, parsed, folded, puzzles, walletv, signed_tx,
                   eve_coin, eve_spend, final_bundle, out, ppvars>>

\* An AssetID taken from the wrapped puzzle hash instead of the TAIL's.
AssetId_Wrapped(ct) == cat_ph

\* line 243
AssetId(ct) == TreeHash(ct)

PrintAssetId ==
    /\ pc = "print_asset_id"
    /\ out' = Append(out, Line("asset_id", AssetId(curried_tail)))
    /\ Goto("print_spend_bundle")
    /\ UNCHANGED <<options, lists, parsed, folded, puzzles, walletv, spends, ppvars>>

\* line 244
PrintSpendBundle ==
    /\ pc = "print_spend_bundle"
    /\ out' = Append(out, Line("spend_bundle", final_bundle_str))
    /\ Goto("done")
    /\ UNCHANGED <<options, lists, parsed, folded, puzzles, walletv, spends, ppvars>>

Next ==
    \/ ParseTail
    \/ AssembleCurry
    \/ ParseSolution
    \/ DecodeAddress
    \/ AggregateSignatures
    \/ AggregateSpends
    \/ Construct
    \/ GetClient
    \/ CreateSignedTransaction
    \/ FinallyClose
    \/ FinallyAwaitClosed
    \/ SelectEve
    \/ SelectPrimary
    \/ BuildGenesis
    \/ Aggregate
    \/ Serialize
    \/ PrintAssetId
    \/ PrintSpendBundle

Spec == Init /\ [][Next]_vars

-----------------------------------------------------------------------------
(* parse_program on every bounded input *)

LocatorChars == {"(", ".", "a"}
FileChars    == {"(", "m", "o", "d", " "}

ParseInputs ==
    {StrInput(t) : t \in Strs(LocatorChars, MaxLocLen)}
        \cup {ProgInput(p) : p \in {<<1, 2>>, <<10>>}}

\* line 67 is reached, so a file is read
OpensFile(input) ==
    /\ ~input.isProgram
    /\ ~Contains(input.text, "(")
    /\ Contains(input.text, ".")

FilesAt(input) ==
    IF OpensFile(input)
    THEN {FileOf(d) : d \in Strs(FileChars, MaxFileLen)} \cup {NoFile}
    ELSE {NoFile}

ParseInit ==
    /\ pc = "parse_program"
    /\ tail_arg = <<>> /\ solution_arg = <<>> /\ send_to = ""
    /\ amount = 0 /\ fee = 0 /\ as_bytes = FALSE /\ select_coin = FALSE
    /\ Locals0
    /\ pp_in \in ParseInputs
    /\ pp_file = NoFile
    /\ pp_out = NoResult

ParseCall ==
    /\ pc = "parse_program"
    /\ \E f \in FilesAt(pp_in) :
         /\ pp_file' = f
         /\ pp_out' = parse_program(pp_in, f)
    /\ pc' = "parsed"
    /\ UNCHANGED <<pp_in, options, lists, parsed, folded, puzzles, walletv, spends,
                   outputs>>

ParseNext == ParseCall

ParseSpec == ParseInit /\ [][ParseNext]_vars

-----------------------------------------------------------------------------
(* Properties *)

Printed(kind) == \E i \in DOMAIN out : out[i].kind = kind

ResultKinds == {"asset_id", "spend_bundle", "coin", "coin_name"}

\* get_signed_tx has returned a transaction to cli
WalletReturned == conn = "closed" /\ pending = ""

\* the wallet could not be reached, or its call raised
WalletFailed == wallet_client = "None" \/ pending # ""

Matches == Len(EveCandidates(signed_tx, cat_ph))

\* C1: once the wallet has returned, an eve coin is selected only when exactly
\* one created coin sits at the wrapped hash; with zero or several matches the
\* run ends in a fatal error, builds no genesis spend and no final bundle.
C1_EveCoinUniqueOrFatal ==
    (WalletReturned /\ Matches # 1) =>
        /\ eve_coin = NoCoin
        /\ eve_spend = EmptyBundle
        /\ final_bundle = EmptyBundle
        /\ Terminated => pc = "error"

\* C2: a run without --select-coin whose stages up to and including the
\* aggregation succeeded ends successfully with the AssetID and the spend
\* bundle printed, whether --as-bytes is set or not.
C2_AggregatedRunPrints ==
    (Terminated /\ ~select_coin /\ final_bundle # EmptyBundle) =>
        /\ pc = "done"
        /\ Printed("asset_id")
        /\ Printed("spend_bundle")

\* C3: with --select-coin no genesis spend is built, no final bundle is
\* aggregated and neither the AssetID nor the spend bundle is printed; and when
\* the consumed coins hold the coin named by the eve coin's parent identifier,
\* the run ends successfully having printed that coin.
C3_SelectCoinStopsEarly ==
    select_coin =>
        /\ eve_spend = EmptyBundle
        /\ final_bundle = EmptyBundle
        /\ final_bundle_str = <<>>
        /\ ~Printed("asset_id")
        /\ ~Printed("spend_bundle")
        /\ pc \notin {"build_genesis", "aggregate", "serialize",
                      "print_asset_id", "print_spend_bundle"}
        /\ (Terminated /\ eve_coin # NoCoin) =>
              LET consumed == removals(signed_tx.spend_bundle)
              IN  \A i \in DOMAIN consumed :
                      CoinName(consumed[i]) = eve_coin.parent_coin_info =>
                          /\ pc = "done"
                          /\ \E k \in DOMAIN out :
                                 out[k] = Line("coin", CoinJsonDict(consumed[i]).data)

C3_Witness ==
    /\ select_coin
    /\ pc = "done"
    /\ Printed("coin")
    /\ Len(signed_tx.spend_bundle.coin_spends) = 2

\* C4: create_signed_transaction is attempted at most once, and when the wallet
\* cannot be reached or the call raises, the run never selects an eve coin and
\* ends with an uncaught exception and a non-zero status.
C4_WalletOnceAndFatal ==
    /\ createCalls <= 1
    /\ WalletFailed =>
          /\ eve_coin = NoCoin
          /\ pc \in {"create_signed_transaction", "finally_close",
                     "finally_await_closed", "error"}
          /\ Terminated => (err # "" /\ exit_status # 0)

C4_Witness ==
    /\ pc = "error"
    /\ createCalls = 1
    /\ pending = "ValueError: wallet"

\* C5 (ParseSpec): the branch parse_program takes follows the documented
\* precedence, and a file holding "(" and the module pattern is compiled.
C5_Expected(input, file) ==
    IF input.isProgram THEN "program"
    ELSE IF \E i \in DOMAIN input.text : input.text[i] = "(" THEN "inline"
    ELSE IF \A i \in DOMAIN input.text : input.text[i] # "." THEN "hex"
    ELSE IF ~file.exists THEN "file"
    ELSE IF (\E i \in DOMAIN file.data : file.data[i] = "(") /\ ModPattern(file.data)
         THEN "file_chialisp"
    ELSE IF \E i \in DOMAIN file.data : file.data[i] = "(" THEN "file_clvm"
    ELSE "file_hex"

C5_ParsePrecedence ==
    pc = "parsed" =>
        /\ pp_out.branch = C5_Expected(pp_in, pp_file)
        /\ pp_in.isProgram => (pp_out.ok /\ pp_out.prog = pp_in.prog)
        /\ pp_out.branch = "file_chialisp" => pp_out.compiled

\* C6: the final bundle holds the funding transaction's coin spends, then the
\* one genesis spend of the eve coin, then the coin spends of every --spend
\* bundle, and nothing else; its signature is the group sum of the funding
\* signature, the genesis bundle's, every --spend bundle's and every
\* --signature; with neither option and one funding spend it holds two spends.
RECURSIVE C6_Sum(_)
C6_Sum(xs) == IF xs = <<>> THEN 0 ELSE Head(xs) + C6_Sum(Tail(xs))

C6_FinalBundleContents ==
    final_bundle # EmptyBundle =>
        LET funding == signed_tx.spend_bundle
            extras  == [i \in DOMAIN spend |-> BundleFromHex(spend[i]).bundle]
            sigs    == [i \in DOMAIN signature |-> G2FromHex(signature[i]).sig]
            n       == Len(funding.coin_spends)
        IN  /\ final_bundle.coin_spends =
                   funding.coin_spends \o eve_spend.coin_spends
                       \o Flatten([i \in DOMAIN extras |-> extras[i].coin_spends])
            /\ Len(eve_spend.coin_spends) = 1
            /\ final_bundle.coin_spends[n + 1].coin = eve_coin
            /\ final_bundle.aggregated_signature =
                   (funding.aggregated_signature + eve_spend.aggregated_signature
                      + C6_Sum([i \in DOMAIN extras |-> extras[i].aggregated_signature])
                      + C6_Sum(sigs)) % GroupOrder
            /\ (spend = <<>> /\ signature = <<>> /\ n = 1) =>
                   Len(final_bundle.coin_spends) = 2

C6_Witness ==
    /\ pc = "done"
    /\ ~select_coin
    /\ spend # <<>>
    /\ signature # <<>>
    /\ Len(final_bundle.coin_spends) = 4
    /\ final_bundle.aggregated_signature # G2Zero

\* C7: the printed AssetID is determined by the TAIL and the curry arguments
\* alone, and without curry arguments it is the tree hash of the TAIL as given.
C7_AssetIdOf(t, cs) ==
    LET p    == parse_program(StrInput(t), FileSystem(t)).prog
        args == [i \in DOMAIN cs |-> assemble(cs[i]).prog]
    IN  IF cs = <<>> THEN <<32>> \o p ELSE <<32>> \o Curry(p, args)

C7_AssetIdFromTailOnly ==
    \A i \in DOMAIN out :
        out[i].kind = "asset_id" => out[i].data = C7_AssetIdOf(tail_arg, curry)

C7_Witness ==
    /\ pc = "done"
    /\ Printed("asset_id")
    /\ curry # <<>>

\* C8: a curry argument that does not assemble ends the run before the wallet
\* is contacted: no connection is opened and no transaction is requested.
C8_MalformedCurryNoNetwork ==
    (\E i \in DOMAIN curry : ~assemble(curry[i]).ok) =>
        /\ pc = "error"
        /\ wallet_client = "unbound"
        /\ conn = "none"
        /\ createCalls = 0
        /\ ~Printed("connection_diagnostic")

C8_Witness ==
    /\ pc = "error"
    /\ err = "SyntaxError"
    /\ \E i \in DOMAIN curry : ~assemble(curry[i]).ok

\* C9: a run that ends in an error has printed neither the AssetID, nor the
\* spend bundle, nor a selected funding coin.
C9_NoResultOnError ==
    pc = "error" => \A i \in DOMAIN out : out[i].kind \notin ResultKinds

C9_Witness ==
    /\ pc = "error"
    /\ err = "TypeError"
    /\ final_bundle # EmptyBundle

\* C10: a run that opened a connection has closed it when get_signed_tx is
\* left, and when no connection could be opened the cleanup lets the failure
\* already in flight propagate rather than raising another in its place.
GetSignedTxLeft ==
    /\ wallet_client # "unbound"
    /\ pc \notin {"create_signed_transaction", "finally_close", "finally_await_closed"}

C10_ClosedAndFailureKept ==
    GetSignedTxLeft =>
        /\ wallet_client = "client" => conn = "closed"
        /\ wallet_client = "None" => (pc = "error" /\ err = pending)

=============================================================================
